---- MODULE Spec2Model ----
(***************************************************************************)
(* Model of pillion-pay-pal: a rider/partner expense tracker.  The state   *)
(* is the four Postgres tables (profiles, settings, attendance, requests), *)
(* the signup transactions in flight, and the React state of the open      *)
(* dashboard sessions.  Every database statement is one step; a handler    *)
(* is the sequence of its awaited statements.                              *)
(***************************************************************************)
EXTENDS Integers, Sequences, FiniteSets, TLC

NULL == "NULL"

\* SQL NULL / JS null in a text column, a date and a number
NullText == <<>>
NoDate == 0 - 1
NoAmount == 0 - 1

\* ------------------------------------------------------------------------
\* Text: strings are sequences of one-character strings.
\* ------------------------------------------------------------------------
LowerLetters == <<"a","b","c","d","e","f","g","h","i","j","k","l","m",
                  "n","o","p","q","r","s","t","u","v","w","x","y","z">>
UpperLetters == <<"A","B","C","D","E","F","G","H","I","J","K","L","M",
                  "N","O","P","Q","R","S","T","U","V","W","X","Y","Z">>
DigitChars == {"0","1","2","3","4","5","6","7","8","9"}
UpperSet == {UpperLetters[i] : i \in 1..26}
WhiteSpace == {" "}

\* String.prototype.toUpperCase / SQL upper(), one character
UpperChar(c) ==
    IF \E i \in 1..26 : LowerLetters[i] = c
    THEN UpperLetters[CHOOSE i \in 1..26 : LowerLetters[i] = c]
    ELSE c

\* String.prototype.toUpperCase / SQL upper()
Upper(s) == [i \in 1..Len(s) |-> UpperChar(s[i])]

\* String.prototype.trim
RECURSIVE TrimLeft(_)
TrimLeft(s) ==
    IF s # <<>> /\ Head(s) \in WhiteSpace THEN TrimLeft(Tail(s)) ELSE s

RECURSIVE TrimRight(_)
TrimRight(s) ==
    IF s # <<>> /\ s[Len(s)] \in WhiteSpace
    THEN TrimRight(SubSeq(s, 1, Len(s) - 1)) ELSE s

Trim(s) == TrimRight(TrimLeft(s))

\* value.replace(/[^A-Z0-9]/g, '')
RECURSIVE StripNonAlnum(_)
StripNonAlnum(s) ==
    IF s = <<>> THEN <<>>
    ELSE IF Head(s) \in UpperSet \cup DigitChars
         THEN <<Head(s)>> \o StripNonAlnum(Tail(s))
         ELSE StripNonAlnum(Tail(s))

CodeLength == 6

MatchesLenAtMost(s) ==
    /\ Len(s) <= CodeLength
    /\ \A i \in 1..Len(s) : s[i] \in UpperSet \cup DigitChars

\* /^[A-Z0-9]{6}$/.test(s)  and  pairing_code ~ '^[A-Z0-9]{6}$'
MatchesCodeFormat(s) ==
    /\ Len(s) = CodeLength
    /\ \A i \in 1..CodeLength : s[i] \in UpperSet \cup DigitChars

\* ------------------------------------------------------------------------
\* Universe
\* ------------------------------------------------------------------------
Users == {"u1", "u2", "u3"}
Roles == {"rider", "partner"}

\* values md5(random()::text) can take, as far as the model draws them;
\* the first and the third share their first six characters
Md5Outputs ==
    { <<"a","3","f","0","9","c","7","e">>,
      <<"0","0","b","2","d","4","1","f">>,
      <<"a","3","f","0","9","c","1","1">>,
      <<"9","e","8","d","7","c","6","b">> }

\* raw_user_meta_data ->> 'role' as sent by the signup form (or absent)
MetaRoles == {NULL, "rider", "partner"}

VARIABLES
    profiles,      \* public.profiles: set of rows
    settings,      \* public.settings: set of rows
    attendance,    \* public.attendance: set of rows
    requests,      \* public.requests: set of rows
    now,           \* the clock, in days
    signup,        \* per user: the signup transaction in flight
    psess,         \* React state of each open partner dashboard
    rsess,         \* React state of each open rider dashboard
    calc           \* one evaluation of a page's statistics: inputs and results

vars == <<profiles, settings, attendance, requests, now,
          signup, psess, rsess, calc>>

dbVars == <<profiles, settings, attendance, requests>>

\* ------------------------------------------------------------------------
\* profiles: constraints, generate_pairing_code, handle_new_user
\* ------------------------------------------------------------------------
\* upper(substring(md5(random()::text) from 1 for 6))
CodeFromMd5(m) == Upper(SubSeq(m, 1, CodeLength))

\* EXISTS (SELECT 1 FROM profiles WHERE pairing_code = code)
CodeExists(code) == \E p \in profiles : p.pairing_code # NullText /\ p.pairing_code = code

ProfileConstraintsNoUnique(row) ==
    /\ \A p \in profiles : p.user_id # row.user_id
    /\ row.pairing_code = NullText \/ MatchesCodeFormat(row.pairing_code)

\* user_id UNIQUE, pairing_code TEXT UNIQUE, check_pairing_code_format
ProfileConstraints(row) ==
    /\ \A p \in profiles : p.user_id # row.user_id
    /\ row.pairing_code = NullText
         \/ \A p \in profiles : p.pairing_code # row.pairing_code
    /\ row.pairing_code = NullText \/ MatchesCodeFormat(row.pairing_code)

\* COALESCE(NEW.raw_user_meta_data ->> 'role', 'rider')
RoleFromMeta(meta) == IF meta = NULL THEN "rider" ELSE meta

NewProfile(u, role, code) ==
    [user_id |-> u, role |-> role, pairing_code |-> code,
     paired_rider_id |-> NULL, created_at |-> now]

NoSignup == [pc |-> "none", role |-> NULL, code |-> NullText, via |-> NULL]

\* INSERT INTO auth.users fires handle_new_user: a rider's code comes from
\* generate_pairing_code() in the VALUES list, any other role gets NULL there
\* and the BEFORE INSERT trigger set_pairing_code fills it in.
SignupStart(u, meta) ==
    /\ signup[u].pc \in {"none", "failed"}
    /\ signup' = [signup EXCEPT ![u] =
                    [pc |-> "generate", role |-> RoleFromMeta(meta), code |-> NullText,
                     via |-> IF RoleFromMeta(meta) = "rider"
                             THEN "handle_new_user" ELSE "set_pairing_code"]]
    /\ UNCHANGED <<dbVars, now, calc, psess, rsess>>

GeneratePairingCodeUnchecked(u, m) ==
    /\ signup[u].pc = "generate"
    /\ signup' = [signup EXCEPT ![u] =
                    [@ EXCEPT !.pc = "insert", !.code = CodeFromMd5(m)]]
    /\ UNCHANGED <<dbVars, now, calc, psess, rsess>>

\* one pass of the loop of generate_pairing_code: draw, then test EXISTS
GeneratePairingCode(u, m) ==
    /\ signup[u].pc = "generate"
    /\ LET code == CodeFromMd5(m) IN
         signup' = [signup EXCEPT ![u] =
                      IF CodeExists(code) THEN @
                      ELSE [@ EXCEPT !.pc = "insert", !.code = code]]
    /\ UNCHANGED <<dbVars, now, calc, psess, rsess>>

\* the INSERT INTO public.profiles itself; a constraint violation aborts the
\* signup transaction
InsertProfile(u) ==
    /\ signup[u].pc = "insert"
    /\ LET row == NewProfile(u, signup[u].role, signup[u].code) IN
         IF ProfileConstraints(row)
         THEN /\ profiles' = profiles \cup {row}
              /\ signup' = [signup EXCEPT ![u].pc = "done"]
         ELSE /\ profiles' = profiles
              /\ signup' = [signup EXCEPT ![u].pc = "failed"]
    /\ UNCHANGED <<settings, attendance, requests, now, calc, psess, rsess>>

\* ------------------------------------------------------------------------
\* Row-level security and table constraints
\* ------------------------------------------------------------------------
PairingWindowDays == 30

ProfileOf(u) == CHOOSE p \in profiles : p.user_id = u

\* "Users can view their own profile", "Users can view profiles by pairing
\* code" (created_at > now() - interval '30 days')
ProfileVisibleAnyAge(uid, p) ==
    \/ p.user_id = uid
    \/ /\ p.pairing_code # NullText
       /\ p.role = "rider"

ProfileVisible(uid, p) ==
    \/ p.user_id = uid
    \/ /\ p.pairing_code # NullText
       /\ p.role = "rider"
       /\ p.created_at > now - PairingWindowDays

\* "Riders can manage their own settings", "Partners can view paired rider
\* settings"
SettingsVisible(uid, st) ==
    \/ st.rider_id = uid
    \/ \E p \in profiles : /\ p.user_id = uid
                           /\ p.role = "partner"
                           /\ p.paired_rider_id = st.rider_id

\* "Users can view their own attendance records"
AttendanceVisible(uid, a) == a.partner_id = uid \/ a.rider_id = uid

\* "Users can view their own requests", "Both users can update request status"
RequestVisible(uid, r) == r.rider_id = uid \/ r.partner_id = uid

MaxCost == 1000000      \* 10000.00, in hundredths

AttendanceStatusInitial == {"present", "requested", "missed"}
AttendanceStatusValid == {"present", "absent", "partial"}
RequestStatus == {"pending", "completed", "ignored"}

\* id UUID DEFAULT gen_random_uuid(): a value no row of the table carries
FreshId(rows) == CHOOSE n \in 1..(Cardinality(rows) + 1) : \A r \in rows : r.id # n

\* "Partners can insert their own attendance", the foreign keys,
\* UNIQUE(partner_id, rider_id, date), the status CHECK of the table,
\* check_attendance_amount_positive, check_attendance_status_valid
AttendanceInsertOk(uid, row) ==
    /\ uid = row.partner_id
    /\ \E p \in profiles : p.user_id = row.partner_id
    /\ \E p \in profiles : p.user_id = row.rider_id
    /\ \A a \in attendance :
         ~(a.partner_id = row.partner_id /\ a.rider_id = row.rider_id
             /\ a.date = row.date)
    /\ row.amount >= 0 /\ row.amount <= MaxCost
    /\ row.status \in AttendanceStatusInitial
    /\ row.status \in AttendanceStatusValid

\* .upsert(row) as PostgREST runs it when no onConflict is given:
\* INSERT ... ON CONFLICT (id) DO UPDATE; the row carries no id, so id takes
\* its default gen_random_uuid().  Result: the error flag and the new table.
AttendanceUpsert(uid, row) ==
    LET full == [id |-> FreshId(attendance)] @@ row IN
    IF \E a \in attendance : a.id = full.id
    THEN IF uid = row.partner_id
         THEN [error |-> FALSE,
               rows |-> {a \in attendance : a.id # full.id} \cup {full}]
         ELSE [error |-> TRUE, rows |-> attendance]
    ELSE IF AttendanceInsertOk(uid, full)
         THEN [error |-> FALSE, rows |-> attendance \cup {full}]
         ELSE [error |-> TRUE, rows |-> attendance]

\* "Riders can create requests", the foreign keys,
\* UNIQUE(rider_id, partner_id, date), the status CHECK
RequestInsertOk(uid, row) ==
    /\ uid = row.rider_id
    /\ \E p \in profiles : p.user_id = row.rider_id
    /\ \E p \in profiles : p.user_id = row.partner_id
    /\ \A r \in requests :
         ~(r.rider_id = row.rider_id /\ r.partner_id = row.partner_id
             /\ r.date = row.date)
    /\ row.status \in RequestStatus

SettingsInsertOkNoUnique(uid, row) ==
    /\ uid = row.rider_id
    /\ row.daily_petrol_cost >= 0 /\ row.daily_petrol_cost <= MaxCost

\* "Riders can manage their own settings", UNIQUE(rider_id),
\* check_daily_petrol_cost_positive
SettingsInsertOk(uid, row) ==
    /\ uid = row.rider_id
    /\ \A st \in settings : st.rider_id # row.rider_id
    /\ row.daily_petrol_cost >= 0 /\ row.daily_petrol_cost <= MaxCost

\* "Riders can manage their own settings", check_daily_petrol_cost_positive
SettingsUpdateOk(uid, row) ==
    /\ uid = row.rider_id
    /\ row.daily_petrol_cost >= 0 /\ row.daily_petrol_cost <= MaxCost

\* UPDATE settings SET daily_petrol_cost = ... WHERE rider_id = ..., on the
\* rows "Riders can manage their own settings" lets uid update
SettingsUpdate(uid, row) ==
    { IF st.rider_id = row.rider_id /\ st.rider_id = uid
      THEN [st EXCEPT !.daily_petrol_cost = row.daily_petrol_cost]
      ELSE st : st \in settings }

\* ------------------------------------------------------------------------
\* PartnerDashboard
\* ------------------------------------------------------------------------
PartnerSessions == {"p1", "p2"}
RiderSessions == {"r1"}

\* the account each open dashboard is signed in to (useAuth().user.id)
SessionUser(s) ==
    CASE s = "r1" -> "u1"
      [] s = "r2" -> "u1"
      [] OTHER -> "u3"

\* what can be typed or pasted into the pairing-code field
TypedCodes ==
    { <<"a","3","f","0","9","c">>,
      <<"0","0","B","2","d","4">>,
      <<"9","e","8","d","7","c">>,
      <<"z","z","z","z","z","z">>,
      <<"a","3","-","f","0","9","c">>,
      <<"a","3","f","0">>,
      <<" ">> }

Min(a, b) == IF a < b THEN a ELSE b

\* maxLength={6}, then onChange: toUpperCase().replace(/[^A-Z0-9]/g, '')
OnChangePairingCode(typed) ==
    StripNonAlnum(Upper(SubSeq(typed, 1, Min(Len(typed), CodeLength))))

RECURSIVE SumAmounts(_)
\* records.reduce((sum, record) => sum + parseFloat(record.amount), 0)
SumAmounts(rows) ==
    IF rows = {} THEN 0
    ELSE LET r == CHOOSE x \in rows : TRUE
         IN r.amount + SumAmounts(rows \ {r})

\* totalSpent as fetchDashboardData computes it for a partner paired with rider
TotalSpent(uid, rider) ==
    SumAmounts({a \in attendance : /\ AttendanceVisible(uid, a)
                                   /\ a.partner_id = uid
                                   /\ a.rider_id = rider})

\* useState<PartnerStats>({...}) and the locals of the handlers
PartnerInitial ==
    [pc |-> "idle", toast |-> "none",
     riderInfo |-> NULL, pairedRiderId |-> NULL, todayMarked |-> FALSE,
     cleanCode |-> NullText, riderProfile |-> NULL, today |-> NoDate,
     amount |-> NoAmount]

\* what fetchDashboardData hands to setStats
PartnerStats(uid) ==
    LET partnerProfile == ProfileOf(uid)
        pairedRiderId == partnerProfile.paired_rider_id
        rider == IF pairedRiderId # NULL
                    /\ \E p \in profiles : /\ p.user_id = pairedRiderId
                                           /\ ProfileVisible(uid, p)
                 THEN pairedRiderId ELSE NULL
        records == {a \in attendance : /\ AttendanceVisible(uid, a)
                                       /\ a.partner_id = uid
                                       /\ a.rider_id = pairedRiderId}
        pending == {r \in requests : /\ RequestVisible(uid, r)
                                     /\ r.partner_id = uid
                                     /\ r.rider_id = pairedRiderId
                                     /\ r.status = "pending"}
    IN [riderInfo |-> rider, pairedRiderId |-> pairedRiderId,
        todayMarked |-> \E a \in records : a.date = now,
        totalSpent |-> SumAmounts(records),
        pendingRequests |-> Cardinality(pending)]

\* the part of the stats the handlers and the cards branch on, kept in the
\* session; the totals are recomputed from the tables wherever they are used

SetStats(st, stats) ==
    [st EXCEPT !.riderInfo = stats.riderInfo,
               !.pairedRiderId = stats.pairedRiderId,
               !.todayMarked = stats.todayMarked]

\* the page is (re)loaded: a fresh component with the useState defaults
PartnerMount(s) ==
    /\ psess[s].pc = "idle"
    /\ psess[s] # PartnerInitial
    /\ psess' = [psess EXCEPT ![s] = PartnerInitial]
    /\ UNCHANGED <<dbVars, now, calc, signup, rsess>>

\* fetchDashboardData started by useEffect or by a realtime notification
FetchDashboardData(s) ==
    /\ psess[s].pc = "idle"
    /\ psess' = [psess EXCEPT ![s] = SetStats(@, PartnerStats(SessionUser(s)))]
    /\ UNCHANGED <<dbVars, now, calc, signup, rsess>>

\* pairWithRider up to its first await: the pairing card is on screen only
\* while stats.pairedRiderId is null
PairWithRider(s, typed) ==
    LET pairingCode == OnChangePairingCode(typed)
        cleanCode == Upper(Trim(pairingCode))
    IN /\ psess[s].pc = "idle"
       /\ psess[s].pairedRiderId = NULL
       /\ Trim(pairingCode) # <<>>
       /\ psess' = [psess EXCEPT ![s] =
            IF ~MatchesCodeFormat(cleanCode)
            THEN [@ EXCEPT !.toast = "Invalid Pairing Code"]
            ELSE [@ EXCEPT !.pc = "pair_select", !.toast = "none",
                           !.cleanCode = cleanCode]]
       /\ UNCHANGED <<dbVars, now, calc, signup, rsess>>

PairSelectRowsAnyRole(uid, code) ==
    {p \in profiles : ProfileVisible(uid, p) /\ p.pairing_code = code}

\* .from('profiles').select('*').eq('pairing_code', cleanCode)
\*   .eq('role', 'rider'), as row-level security lets uid see it
PairSelectRows(uid, code) ==
    {p \in profiles : /\ ProfileVisible(uid, p)
                      /\ p.pairing_code = code
                      /\ p.role = "rider"}

\* the lookup with .maybeSingle(), and the two early returns after it
PairSelect(s) ==
    LET uid == SessionUser(s)
        rows == PairSelectRows(uid, psess[s].cleanCode)
    IN /\ psess[s].pc = "pair_select"
       /\ psess' = [psess EXCEPT ![s] =
            IF Cardinality(rows) > 1
            THEN [@ EXCEPT !.pc = "idle", !.toast = "Search Error"]
            ELSE IF rows = {}
            THEN [@ EXCEPT !.pc = "idle", !.toast = "Invalid Code"]
            ELSE [@ EXCEPT !.pc = "pair_update",
                           !.riderProfile = (CHOOSE p \in rows : TRUE).user_id]]
       /\ UNCHANGED <<dbVars, now, calc, signup, rsess>>

PairUpdateNothing(uid, rider) == profiles

PairUpdateRowsOnce(uid, rider) ==
    { IF p.user_id = uid /\ p.paired_rider_id = NULL
      THEN [p EXCEPT !.paired_rider_id = rider] ELSE p : p \in profiles }

\* .from('profiles').update({ paired_rider_id }).eq('user_id', user.id)
\* under "Users can update their own profile"
PairUpdateRows(uid, rider) ==
    { IF p.user_id = uid
      THEN [p EXCEPT !.paired_rider_id = rider] ELSE p : p \in profiles }

PairUpdate(s) ==
    /\ psess[s].pc = "pair_update"
    /\ profiles' = PairUpdateRows(SessionUser(s), psess[s].riderProfile)
    /\ psess' = [psess EXCEPT ![s].pc = "pair_fetch"]
    /\ UNCHANGED <<settings, attendance, requests, now, calc, signup, rsess>>

\* await fetchDashboardData(); setPairingCode(''); toast
PairFetch(s) ==
    /\ psess[s].pc = "pair_fetch"
    /\ psess' = [psess EXCEPT ![s] =
         [SetStats(@, PartnerStats(SessionUser(s)))
            EXCEPT !.pc = "idle", !.toast = "Successfully Paired!",
                   !.cleanCode = NullText, !.riderProfile = NULL]]
    /\ UNCHANGED <<dbVars, now, calc, signup, rsess>>

\* markAttendance up to its first await: the button is on screen only when
\* stats.pairedRiderId is set and stats.todayMarked is false, and the handler
\* returns at once without stats.riderInfo
MarkAttendance(s) ==
    /\ psess[s].pc = "idle"
    /\ psess[s].pairedRiderId # NULL
    /\ ~psess[s].todayMarked
    /\ psess[s].riderInfo # NULL
    /\ psess' = [psess EXCEPT ![s] =
         [@ EXCEPT !.pc = "mark_settings", !.toast = "none", !.today = now,
                   !.amount = NoAmount, !.cleanCode = NullText]]
    /\ UNCHANGED <<dbVars, now, calc, signup, rsess>>

MarkSettingsDefaultZero(s) ==
    LET uid == SessionUser(s)
        rows == {st \in settings : /\ SettingsVisible(uid, st)
                                   /\ st.rider_id = psess[s].riderInfo}
    IN /\ psess[s].pc = "mark_settings"
       /\ psess' = [psess EXCEPT ![s] =
            [@ EXCEPT !.pc = "mark_upsert",
                      !.amount = IF Cardinality(rows) # 1 THEN 0
                                 ELSE (CHOOSE st \in rows : TRUE).daily_petrol_cost]]
       /\ UNCHANGED <<dbVars, now, calc, signup, rsess>>

\* .from('settings').select('*').eq('rider_id', stats.riderInfo.user_id)
\*   .maybeSingle(); if (!settings) { toast; return }
MarkSettings(s) ==
    LET uid == SessionUser(s)
        rows == {st \in settings : /\ SettingsVisible(uid, st)
                                   /\ st.rider_id = psess[s].riderInfo}
    IN /\ psess[s].pc = "mark_settings"
       /\ psess' = [psess EXCEPT ![s] =
            IF Cardinality(rows) # 1
            THEN [@ EXCEPT !.pc = "idle", !.today = NoDate,
                           !.toast = "Rider hasn't set daily petrol cost yet."]
            ELSE [@ EXCEPT !.pc = "mark_upsert",
                           !.amount = (CHOOSE st \in rows : TRUE).daily_petrol_cost]]
       /\ UNCHANGED <<dbVars, now, calc, signup, rsess>>

MarkRowDefaultAmount(uid, rider, today, amount) ==
    [partner_id |-> uid, rider_id |-> rider, date |-> today, amount |-> 0,
     status |-> "present"]

\* the object handed to .upsert()
MarkRow(uid, rider, today, amount) ==
    [partner_id |-> uid, rider_id |-> rider, date |-> today, amount |-> amount,
     status |-> "present"]

\* .from('attendance').upsert({...}); if (attendanceError) throw
MarkUpsert(s) ==
    LET uid == SessionUser(s)
        row == MarkRow(uid, psess[s].riderInfo, psess[s].today, psess[s].amount)
        result == AttendanceUpsert(uid, row)
    IN /\ psess[s].pc = "mark_upsert"
       /\ IF result.error
          THEN /\ psess' = [psess EXCEPT ![s] =
                    [@ EXCEPT !.pc = "idle", !.toast = "Error",
                              !.today = NoDate, !.amount = NoAmount]]
               /\ UNCHANGED attendance
          ELSE /\ attendance' = result.rows
               /\ psess' = [psess EXCEPT ![s].pc = "mark_requests"]
       /\ UNCHANGED <<profiles, settings, requests, now, calc, signup, rsess>>

MarkRequestsNothing(uid, today) == requests

\* .from('requests').update({ status: 'completed' })
\*   .eq('partner_id', user.id).eq('date', today)
MarkRequestsRows(uid, today) ==
    { IF RequestVisible(uid, r) /\ r.partner_id = uid /\ r.date = today
      THEN [r EXCEPT !.status = "completed"] ELSE r : r \in requests }

MarkRequests(s) ==
    /\ psess[s].pc = "mark_requests"
    /\ requests' = MarkRequestsRows(SessionUser(s), psess[s].today)
    /\ psess' = [psess EXCEPT ![s].pc = "mark_fetch"]
    /\ UNCHANGED <<profiles, settings, attendance, now, calc, signup, rsess>>

\* await fetchDashboardData(); toast "Attendance marked!"
MarkFetch(s) ==
    /\ psess[s].pc = "mark_fetch"
    /\ psess' = [psess EXCEPT ![s] =
         [SetStats(@, PartnerStats(SessionUser(s)))
            EXCEPT !.pc = "idle", !.toast = "Attendance marked!",
                   !.today = NoDate, !.amount = NoAmount]]
    /\ UNCHANGED <<dbVars, now, calc, signup, rsess>>

\* ------------------------------------------------------------------------
\* RiderDashboard: savePetrolCost
\* ------------------------------------------------------------------------
NaN == [nan |-> TRUE, value |-> 0]

Number(v) == [nan |-> FALSE, value |-> v]

DigitValue(c) ==
    CASE c = "0" -> 0 [] c = "1" -> 1 [] c = "2" -> 2 [] c = "3" -> 3
      [] c = "4" -> 4 [] c = "5" -> 5 [] c = "6" -> 6 [] c = "7" -> 7
      [] c = "8" -> 8 [] c = "9" -> 9

RECURSIVE DigitPrefix(_)
\* the longest prefix of s made of decimal digits
DigitPrefix(s) ==
    IF s # <<>> /\ Head(s) \in DigitChars
    THEN <<Head(s)>> \o DigitPrefix(Tail(s)) ELSE <<>>

RECURSIVE DigitsValue(_)
DigitsValue(ds) ==
    IF ds = <<>> THEN 0
    ELSE 10 * DigitsValue(SubSeq(ds, 1, Len(ds) - 1)) + DigitValue(ds[Len(ds)])

\* parseFloat(text), in hundredths: optional sign, digits, optional fraction,
\* anything after that ignored; NaN when no digit is found.  The fraction is
\* cut to the two places DECIMAL(10,2) keeps.
ParseFloat(text) ==
    LET t == TrimLeft(text)
        neg == t # <<>> /\ Head(t) = "-"
        u == IF t # <<>> /\ Head(t) \in {"-", "+"} THEN Tail(t) ELSE t
        ip == DigitPrefix(u)
        rest == SubSeq(u, Len(ip) + 1, Len(u))
        fp == IF rest # <<>> /\ Head(rest) = "." THEN DigitPrefix(Tail(rest))
              ELSE <<>>
        f2 == SubSeq(fp \o <<"0", "0">>, 1, 2)
        mag == 100 * DigitsValue(ip) + DigitsValue(f2)
    IN IF ip = <<>> /\ fp = <<>> THEN NaN
       ELSE IF neg THEN Number(0 - mag) ELSE Number(mag)

\* what the number field of the settings card can hold
TypedCosts ==
    { <<"1","2","0">>, <<"5","0",".","5">>, <<"-","5">>,
      <<"1","0","0","0","1">>, <<>> }

RiderInitial ==
    [pc |-> "idle", cost |-> NoAmount, existing |-> FALSE, partnerInfo |-> NULL]

\* the locals of a handler are gone when it returns
RiderReturn(st) ==
    [st EXCEPT !.pc = "idle", !.cost = NoAmount, !.existing = FALSE]

CostRejectedBelowZeroOnly(cost) == cost.nan \/ cost.value < 0

\* isNaN(cost) || cost < 0 || cost > 10000
CostRejected(cost) == cost.nan \/ cost.value < 0 \/ cost.value > MaxCost

\* savePetrolCost up to its first await: the return on an empty field, the
\* "Invalid Amount" return, or on to the existence check
SavePetrolCost(s, petrolCost) ==
    LET cost == ParseFloat(petrolCost) IN
    /\ rsess[s].pc = "idle"
    /\ rsess' = [rsess EXCEPT ![s] =
         IF petrolCost = <<>> \/ CostRejected(cost)
         THEN @
         ELSE [@ EXCEPT !.pc = "save_select", !.cost = cost.value]]
    /\ UNCHANGED <<dbVars, now, calc, signup, psess>>

\* .from('settings').select('id').eq('rider_id', user.id).maybeSingle()
SaveSelect(s) ==
    LET uid == SessionUser(s)
        rows == {st \in settings : SettingsVisible(uid, st) /\ st.rider_id = uid}
    IN /\ rsess[s].pc = "save_select"
       /\ rsess' = [rsess EXCEPT ![s] =
            [@ EXCEPT !.pc = "save_write", !.existing = (Cardinality(rows) = 1)]]
       /\ UNCHANGED <<dbVars, now, calc, signup, psess>>

SaveWriteRederiving(s) ==
    LET uid == SessionUser(s)
        row == [rider_id |-> uid, daily_petrol_cost |-> rsess[s].cost]
    IN /\ rsess[s].pc = "save_write"
       /\ settings' = IF rsess[s].existing THEN SettingsUpdate(uid, row)
                      ELSE settings \cup {row}
       /\ attendance' = { IF a.rider_id = uid
                          THEN [a EXCEPT !.amount = rsess[s].cost] ELSE a :
                          a \in attendance }
       /\ rsess' = [rsess EXCEPT ![s] = RiderReturn(@)]
       /\ UNCHANGED <<profiles, requests, now, calc, signup, psess>>

\* the update branch or the insert branch, then the toast
SaveWrite(s) ==
    LET uid == SessionUser(s)
        row == [rider_id |-> uid, daily_petrol_cost |-> rsess[s].cost]
    IN /\ rsess[s].pc = "save_write"
       /\ IF rsess[s].existing
          THEN /\ settings' = IF SettingsUpdateOk(uid, row)
                               THEN SettingsUpdate(uid, row)
                               ELSE settings
               /\ rsess' = [rsess EXCEPT ![s] = RiderReturn(@)]
          ELSE IF SettingsInsertOk(uid, row)
          THEN /\ settings' = settings \cup {row}
               /\ rsess' = [rsess EXCEPT ![s] = RiderReturn(@)]
          ELSE /\ settings' = settings
               /\ rsess' = [rsess EXCEPT ![s] = RiderReturn(@)]
       /\ UNCHANGED <<profiles, attendance, requests, now, calc, signup, psess>>

\* "Find partner": .from('profiles').select('*').eq('role', 'partner')
\*   .limit(1).maybeSingle(), under the SELECT policies of profiles
RiderPartnerRows(uid) ==
    {p \in profiles : ProfileVisible(uid, p) /\ p.role = "partner"}

\* fetchDashboardData of the rider page, as far as the handlers use it:
\* stats.partnerInfo is any one row of the lookup, or null
RiderFetchDashboardData(s) ==
    LET rows == RiderPartnerRows(SessionUser(s))
        found == IF rows = {} THEN {NULL} ELSE {p.user_id : p \in rows}
    IN /\ rsess[s].pc = "idle"
       /\ \E partner \in found :
            rsess' = [rsess EXCEPT ![s] = [@ EXCEPT !.partnerInfo = partner]]
       /\ UNCHANGED <<dbVars, now, calc, signup, psess>>

\* sendRequest is called
SendRequestCall(s) ==
    /\ rsess[s].pc = "idle"
    /\ rsess' = [rsess EXCEPT ![s] = [@ EXCEPT !.pc = "send_request"]]
    /\ UNCHANGED <<dbVars, now, calc, signup, psess>>

\* .upsert(row) on requests with no onConflict: INSERT ... ON CONFLICT (id)
\* DO UPDATE with id = gen_random_uuid()
RequestUpsert(uid, row) ==
    LET full == [id |-> FreshId(requests)] @@ row IN
    IF \E r \in requests : r.id = full.id
    THEN IF RequestVisible(uid, full)
         THEN [error |-> FALSE,
               rows |-> {r \in requests : r.id # full.id} \cup {full}]
         ELSE [error |-> TRUE, rows |-> requests]
    ELSE IF RequestInsertOk(uid, full)
         THEN [error |-> FALSE, rows |-> requests \cup {full}]
         ELSE [error |-> TRUE, rows |-> requests]

\* the body of sendRequest: the guard on stats.partnerInfo, the upsert, the
\* toast of either outcome
SendRequest(s) ==
    LET uid == SessionUser(s)
        row == [rider_id |-> uid, partner_id |-> rsess[s].partnerInfo,
                date |-> now, status |-> "pending"]
    IN /\ rsess[s].pc = "send_request"
       /\ rsess' = [rsess EXCEPT ![s] = RiderReturn(@)]
       /\ IF rsess[s].partnerInfo = NULL
          THEN requests' = requests
          ELSE requests' = RequestUpsert(uid, row).rows
       /\ UNCHANGED <<profiles, settings, attendance, now, calc, signup, psess>>

\* ------------------------------------------------------------------------
\* requests rows, the clock
\* ------------------------------------------------------------------------
MaxRequests == 1

\* the days the runs visit: the day the accounts were created, the last day
\* inside the 30-day window of the lookup policy and the first day outside it
Days == {0, PairingWindowDays - 1, PairingWindowDays}

\* a request row for rider sent by the signed-in user uid through the table's
\* API; "Riders can create requests" admits it when uid is that rider (date
\* defaults to CURRENT_DATE)
InsertRequest(uid, rider, partner, status) ==
    LET row == [id |-> FreshId(requests), rider_id |-> rider,
                partner_id |-> partner, date |-> now, status |-> status]
    IN /\ Cardinality(requests) < MaxRequests
       /\ RequestInsertOk(uid, row)
       /\ requests' = requests \cup {row}
       /\ UNCHANGED <<profiles, settings, attendance, now, calc, signup, psess, rsess>>

\* what the settings card is given in the runs of the settings checks: the
\* ends of the range and the values next to them
SettingsTypedCosts ==
    TypedCosts \cup { <<"0">>, <<"1","0","0","0","0">>,
                      <<"1","0","0","0","0",".","0","1">>, <<"-","0",".","0","1">> }

\* the costs a rider sends through the table's API
ApiCosts == {0 - 1, 0, MaxCost, MaxCost + 1}

\* the signed-in user uid writes the settings row of rider through the
\* table's API: an insert, or an update of the row that is there.  "Riders
\* can manage their own settings" admits it when uid is that rider; the
\* CHECK turns a cost out of range away
ManageSettings(uid, rider, cost) ==
    LET row == [rider_id |-> rider, daily_petrol_cost |-> cost]
    IN /\ \E p \in profiles : p.user_id = uid
       /\ settings' =
            IF \E st \in settings : st.rider_id = rider
            THEN IF SettingsUpdateOk(uid, row)
                 THEN SettingsUpdate(uid, row) ELSE settings
            ELSE IF SettingsInsertOk(uid, row)
                 THEN settings \cup {row} ELSE settings
       /\ UNCHANGED <<profiles, attendance, requests, now, calc, signup, psess, rsess>>

ProfileUpdatableByAnyone(uid, p) == TRUE

\* "Users can update their own profile"
ProfileUpdatable(uid, p) == p.user_id = uid

\* the signed-in user uid sends .update({ paired_rider_id: rider })
\* .eq('user_id', target) to profiles
UpdateProfile(uid, target, rider) ==
    /\ profiles' = { IF p.user_id = target /\ ProfileUpdatable(uid, p)
                     THEN [p EXCEPT !.paired_rider_id = rider]
                     ELSE p : p \in profiles }
    /\ UNCHANGED <<settings, attendance, requests, now, calc, signup, psess, rsess>>

\* the signed-in user uid inserts an attendance row for (partner, rider,
\* today) through the table's API
InsertAttendance(uid, partner, rider, amount) ==
    LET row == [id |-> FreshId(attendance), partner_id |-> partner,
                rider_id |-> rider, date |-> now, amount |-> amount,
                status |-> "present"]
    IN /\ attendance' = IF AttendanceInsertOk(uid, row)
                        THEN attendance \cup {row} ELSE attendance
       /\ UNCHANGED <<profiles, settings, requests, now, calc, signup, psess, rsess>>

\* the signed-in user uid sends .update({ amount }).eq('id', a.id) to
\* attendance: "Partners can update their own attendance",
\* check_attendance_amount_positive
UpdateAttendance(uid, a, amount) ==
    /\ a \in attendance
    /\ attendance' =
         IF uid = a.partner_id /\ amount >= 0 /\ amount <= MaxCost
         THEN (attendance \ {a}) \cup {[a EXCEPT !.amount = amount]}
         ELSE attendance
    /\ UNCHANGED <<profiles, settings, requests, now, calc, signup, psess, rsess>>

\* a party of a pending request sets it aside through the table's API, as
\* "Both users can update request status" admits it
IgnoreRequest(uid, r) ==
    /\ r \in requests
    /\ RequestVisible(uid, r)
    /\ r.status = "pending"
    /\ requests' = (requests \ {r}) \cup {[r EXCEPT !.status = "ignored"]}
    /\ UNCHANGED <<profiles, settings, attendance, now, calc, signup, psess, rsess>>

AdvanceClock(d) ==
    /\ d > now
    /\ now' = d
    /\ UNCHANGED <<dbVars, signup, psess, rsess, calc>>

\* ------------------------------------------------------------------------
\* Dates.  A JavaScript Date is an instant, here in whole hours since
\* 2020-01-01T00:00Z; a DATE column and its "YYYY-MM-DD" string is the number
\* of its day since 2020-01-01.  The browser's time zone is an offset in
\* hours east of UTC (no daylight saving).  Months count from 0 as in JS.
\* ------------------------------------------------------------------------
IsLeapYear(y) == (y % 4 = 0 /\ y % 100 # 0) \/ y % 400 = 0

DaysInMonth(y, m) ==
    CASE m = 1 -> IF IsLeapYear(y) THEN 29 ELSE 28
      [] m \in {3, 5, 8, 10} -> 30
      [] OTHER -> 31

\* days from 2020-01-01 to the first day of month m of year y
RECURSIVE DaysBefore(_, _)
DaysBefore(y, m) ==
    IF y = 2020 /\ m = 0 THEN 0
    ELSE LET py == IF m = 0 THEN y - 1 ELSE y
             pm == IF m = 0 THEN 11 ELSE m - 1
         IN DaysBefore(py, pm) + DaysInMonth(py, pm)

\* MakeDay of the Date constructor and setters: month and day may lie outside
\* their ranges and carry over
MakeDay(y, m, d) == DaysBefore(y + (m \div 12), m % 12) + d - 1

RECURSIVE YmdFrom(_, _, _)
YmdFrom(y, m, n) ==
    IF n < DaysInMonth(y, m) THEN [year |-> y, month |-> m, date |-> n + 1]
    ELSE YmdFrom(IF m = 11 THEN y + 1 ELSE y, (m + 1) % 12, n - DaysInMonth(y, m))

\* year, month and day of the month of a day number
Ymd(day) == YmdFrom(2020, 0, day)

LocalDay(t, tz) == (t + tz) \div 24
LocalHour(t, tz) == (t + tz) % 24

\* Date.prototype.getFullYear / getMonth / getDate: fields of the local time
GetFullYear(t, tz) == Ymd(LocalDay(t, tz)).year
GetMonth(t, tz) == Ymd(LocalDay(t, tz)).month
GetDate(t, tz) == Ymd(LocalDay(t, tz)).date

MakeLocal(y, m, d, h, tz) == MakeDay(y, m, d) * 24 + h - tz

\* Date.prototype.setDate / setMonth / setFullYear: rebuild the local time
SetDate(t, tz, d) ==
    MakeLocal(GetFullYear(t, tz), GetMonth(t, tz), d, LocalHour(t, tz), tz)
SetMonth(t, tz, m) ==
    MakeLocal(GetFullYear(t, tz), m, GetDate(t, tz), LocalHour(t, tz), tz)
SetFullYear(t, tz, y) ==
    MakeLocal(y, GetMonth(t, tz), GetDate(t, tz), LocalHour(t, tz), tz)

\* date.toISOString().split('T')[0]: the UTC calendar day
IsoDate(t) == t \div 24

\* new Date('YYYY-MM-DD'): midnight UTC of that day
ParseDate(date) == date * 24

\* the offsets the evaluations run under: New York (winter), UTC, Karachi
TimeZones == {0 - 5, 0, 5}

\* ------------------------------------------------------------------------
\* RiderDashboard: resetMonthlyData
\* ------------------------------------------------------------------------
AttendanceDeletableByRider(uid, a) == a.rider_id = uid

\* row-level security is enabled on attendance and none of its policies is
\* FOR DELETE or FOR ALL: a DELETE finds no row it may remove
AttendanceDeletable(uid, a) == FALSE

\* `${currentYear}-${String(currentMonth + 1).padStart(2, '0')}-01`, from the
\* browser's local month and year at instant t
MonthStart(t, tz) == MakeDay(GetFullYear(t, tz), GetMonth(t, tz), 1)

\* resetMonthlyData up to its first await
ResetMonthlyData(s) ==
    /\ rsess[s].pc = "idle"
    /\ rsess' = [rsess EXCEPT ![s] = [@ EXCEPT !.pc = "reset_delete"]]
    /\ UNCHANGED <<dbVars, now, calc, signup, psess>>

\* .from('attendance').delete().eq('rider_id', user.id).gte('date', ...),
\* sent at hour h of the database's day from a browser in time zone tz; a
\* DELETE that removes no row is no error
ResetDelete(s, h, tz) ==
    LET uid == SessionUser(s)
        first == MonthStart(now * 24 + h, tz)
    IN /\ rsess[s].pc = "reset_delete"
       /\ now * 24 + h + tz >= 0
       /\ attendance' = {a \in attendance :
                            ~(/\ AttendanceDeletable(uid, a)
                              /\ a.rider_id = uid
                              /\ a.date >= first)}
       /\ rsess' = [rsess EXCEPT ![s] = [@ EXCEPT !.pc = "reset_fetch"]]
       /\ UNCHANGED <<profiles, settings, requests, now, calc, signup, psess>>

\* await fetchDashboardData(); toast "Data reset"
ResetFetch(s) ==
    LET rows == RiderPartnerRows(SessionUser(s))
        found == IF rows = {} THEN {NULL} ELSE {p.user_id : p \in rows}
    IN /\ rsess[s].pc = "reset_fetch"
       /\ \E partner \in found :
            rsess' = [rsess EXCEPT ![s] =
                        [RiderReturn(@) EXCEPT !.partnerInfo = partner]]
       /\ UNCHANGED <<dbVars, now, calc, signup, psess>>

\* ------------------------------------------------------------------------
\* Statistics of the dashboards
\* ------------------------------------------------------------------------
\* no statistics are being evaluated
NoCalc == [op |-> "none"]

\* useState<DashboardStats> before the first fetch
StatsInitial ==
    [total |-> 0, monthly |-> 0, daysThisMonth |-> 0, todayStatus |-> "none"]

\* "Calculate stats" of fetchDashboardData (the rider page; the partner page
\* computes the same with todayMarked for todayStatus = 'completed')
CalculateStats(records, t, tz) ==
    LET currentMonth == GetMonth(t, tz)
        currentYear == GetFullYear(t, tz)
        today == IsoDate(t)
        monthlyAttendance ==
            {r \in records :
                LET recordDate == ParseDate(r.date)
                IN /\ GetMonth(recordDate, tz) = currentMonth
                   /\ GetFullYear(recordDate, tz) = currentYear}
    IN [total |-> SumAmounts(records),
        monthly |-> SumAmounts(monthlyAttendance),
        daysThisMonth |-> Cardinality(monthlyAttendance),
        todayStatus |-> IF \E r \in records : r.date = today
                        THEN "completed" ELSE "pending"]

ToFixed2Truncating(m, d) == {m \div d}

\* (m / d).toFixed(2), in hundredths: the integer nearest to the quotient.
\* Where the quotient lies halfway between two hundredths the binary value
\* of the double decides, which the model leaves open: both neighbours.
ToFixed2(m, d) ==
    LET q == m \div d
        r == m - q * d
    IN IF 2 * r < d THEN {q}
       ELSE IF 2 * r > d THEN {q + 1}
       ELSE {q, q + 1}

\* nothing is shown yet
NoAvg == [divided |-> FALSE, value |-> NoAmount]

\* stats.daysThisMonth > 0 ? (stats.monthlySpent / stats.daysThisMonth)
\*   .toFixed(2) : '0' -- the values the card can show, and whether the
\* division ran
AvgPerDay(stats) ==
    IF stats.daysThisMonth > 0
    THEN {[divided |-> TRUE, value |-> v] :
             v \in ToFixed2(stats.monthly, stats.daysThisMonth)}
    ELSE {[divided |-> FALSE, value |-> 0]}

\* attendance rows of one rider the evaluations draw from: 1, 10, 15 and 31
\* August 2025 and 31 July 2025
StatsRecords ==
    { [id |-> 1, date |-> MakeDay(2025, 7, 1), amount |-> 10000],
      [id |-> 2, date |-> MakeDay(2025, 7, 10), amount |-> 10000],
      [id |-> 3, date |-> MakeDay(2025, 7, 15), amount |-> 5000],
      [id |-> 4, date |-> MakeDay(2025, 6, 31), amount |-> 100],
      [id |-> 5, date |-> MakeDay(2025, 7, 31), amount |-> 101] }

\* the instants of the evaluations: noon UTC of 15 August 2025, 22:00 UTC of
\* 31 August 2025, noon UTC of 15 August 2026
StatsInstants ==
    { MakeDay(2025, 7, 15) * 24 + 12,
      MakeDay(2025, 7, 31) * 24 + 22,
      MakeDay(2026, 7, 15) * 24 + 12 }

\* the page computes its statistics from the rows it fetched
FetchStats ==
    /\ calc.op = "stats" /\ calc.stage = "fetched"
    /\ calc' = [calc EXCEPT !.stage = "stats",
                            !.stats = CalculateStats(calc.records, calc.t, calc.tz)]
    /\ UNCHANGED <<dbVars, now, signup, psess, rsess>>

\* the statistics card renders "Avg per Day"
RenderAvgPerDay ==
    /\ calc.op = "stats" /\ calc.stage = "stats"
    /\ \E a \in AvgPerDay(calc.stats) :
         calc' = [calc EXCEPT !.stage = "shown", !.avg = a]
    /\ UNCHANGED <<dbVars, now, signup, psess, rsess>>

\* ------------------------------------------------------------------------
\* PartnerDashboard: the realtime subscription
\* ------------------------------------------------------------------------
\* the realtime callback: the INSERT of a request row with partner_id =
\* user.id is notified, at some time after it, and the callback starts a
\* fetchDashboardData of its own next to whatever handler is running
RefetchStart(s) ==
    /\ calc = NoCalc
    /\ \E r \in requests : r.partner_id = SessionUser(s)
    /\ calc' = [op |-> "fetch", session |-> s, stage |-> "started",
                stats |-> NULL]
    /\ UNCHANGED <<dbVars, now, signup, psess, rsess>>

\* the queries of that fetchDashboardData and the statistics computed from
\* their rows, held in its locals
RefetchRead(s) ==
    /\ calc.op = "fetch" /\ calc.session = s /\ calc.stage = "started"
    /\ calc' = [calc EXCEPT !.stage = "read",
                            !.stats = PartnerStats(SessionUser(s))]
    /\ UNCHANGED <<dbVars, now, signup, psess, rsess>>

\* its setStats({...}): whatever the page showed is replaced
RefetchSetStats(s) ==
    /\ calc.op = "fetch" /\ calc.session = s /\ calc.stage = "read"
    /\ psess' = [psess EXCEPT ![s] = SetStats(@, calc.stats)]
    /\ calc' = NoCalc
    /\ UNCHANGED <<dbVars, now, signup, rsess>>

\* ------------------------------------------------------------------------
\* AnalyticsChart
\* ------------------------------------------------------------------------
\* the start of the date range of a view
StartDate(viewType, t, tz) ==
    CASE viewType = "day" -> SetDate(t, tz, GetDate(t, tz) - 7)
      [] viewType = "month" -> SetMonth(t, tz, GetMonth(t, tz) - 1)
      [] viewType = "year" -> SetFullYear(t, tz, GetFullYear(t, tz) - 1)
      [] OTHER -> SetFullYear(t, tz, GetFullYear(t, tz) - 2)

AnalyticsEntryRequestFirst(dateStr, attendanceRows, requestRows) ==
    IF \E r \in requestRows : r.date = dateStr
    THEN [date |-> dateStr, amount |-> 0, status |-> "requested"]
    ELSE IF \E a \in attendanceRows : a.date = dateStr
    THEN [date |-> dateStr, status |-> "completed",
          amount |-> (CHOOSE a \in attendanceRows : a.date = dateStr).amount]
    ELSE [date |-> dateStr, amount |-> 0, status |-> "none"]

\* one pass of the loop body: the entry pushed for dateStr
AnalyticsEntry(dateStr, attendanceRows, requestRows) ==
    IF \E a \in attendanceRows : a.date = dateStr
    THEN [date |-> dateStr, status |-> "completed",
          amount |-> (CHOOSE a \in attendanceRows : a.date = dateStr).amount]
    ELSE IF \E r \in requestRows : r.date = dateStr
    THEN [date |-> dateStr, amount |-> 0, status |-> "requested"]
    ELSE [date |-> dateStr, amount |-> 0, status |-> "none"]

\* while (currentDate <= endDate) { push; currentDate.setDate(getDate() + 1) }
RECURSIVE DateRange(_, _, _, _, _)
DateRange(currentDate, endDate, tz, attendanceRows, requestRows) ==
    IF currentDate <= endDate
    THEN <<AnalyticsEntry(IsoDate(currentDate), attendanceRows, requestRows)>>
           \o DateRange(SetDate(currentDate, tz, GetDate(currentDate, tz) + 1),
                        endDate, tz, attendanceRows, requestRows)
    ELSE <<>>

\* fetchAnalyticsData for the signed-in rider uid, over the rows of the two
\* tables: the range, the two queries, the dense loop
FetchAnalyticsData(uid, viewType, t, tz, attendanceTable, requestsTable) ==
    LET startDate == StartDate(viewType, t, tz)
        endDate == t
        startDateStr == IsoDate(startDate)
        endDateStr == IsoDate(endDate)
        attendanceRows ==
            {a \in attendanceTable : /\ AttendanceVisible(uid, a)
                                     /\ a.rider_id = uid
                                     /\ a.date >= startDateStr
                                     /\ a.date <= endDateStr}
        requestRows ==
            {r \in requestsTable : /\ RequestVisible(uid, r)
                                   /\ r.rider_id = uid
                                   /\ r.date >= startDateStr
                                   /\ r.date <= endDateStr
                                   /\ r.status = "pending"}
    IN DateRange(startDate, endDate, tz, attendanceRows, requestRows)

\* the views the evaluations open ('year' and 'all' run the same loop over
\* 366 and 731 days)
AnalyticsViews == {"day", "month"}

\* the instants of the evaluations: 09:00 UTC of 15 August 2025 and 22:00 UTC
\* of 31 March 2025
AnalyticsInstants ==
    { MakeDay(2025, 7, 15) * 24 + 9, MakeDay(2025, 2, 31) * 24 + 22 }

\* attendance rows the evaluations draw from, by their distance in days from
\* the day of the evaluation: at most one row of a rider per day
AnalyticsAttendance(today) ==
    { [id |-> 1, partner_id |-> "u3", rider_id |-> "u1", date |-> today,
       amount |-> 12000, status |-> "present"],
      [id |-> 2, partner_id |-> "u3", rider_id |-> "u1", date |-> today - 3,
       amount |-> 5050, status |-> "present"],
      [id |-> 3, partner_id |-> "u3", rider_id |-> "u1", date |-> today - 7,
       amount |-> 12000, status |-> "present"],
      [id |-> 4, partner_id |-> "u3", rider_id |-> "u2", date |-> today - 1,
       amount |-> 700, status |-> "present"] }

AnalyticsRequests(today) ==
    { [id |-> 1, rider_id |-> "u1", partner_id |-> "u3", date |-> today - 3,
       status |-> "pending"],
      [id |-> 2, rider_id |-> "u1", partner_id |-> "u3", date |-> today - 2,
       status |-> "pending"],
      [id |-> 3, rider_id |-> "u1", partner_id |-> "u3", date |-> today - 1,
       status |-> "completed"],
      [id |-> 4, rider_id |-> "u2", partner_id |-> "u3", date |-> today - 5,
       status |-> "pending"] }

\* the chart of rider u1 loads its data
LoadAnalytics ==
    /\ calc.op = "analytics" /\ calc.stage = "fetching"
    /\ calc' = [calc EXCEPT !.stage = "shown",
                            !.data = FetchAnalyticsData("u1", calc.viewType, calc.t,
                                        calc.tz, calc.attendance, calc.requests)]
    /\ UNCHANGED <<dbVars, now, signup, psess, rsess>>

\* setViewType: the effect reloads the chart
SetViewType(viewType) ==
    /\ calc.op = "analytics" /\ calc.stage = "shown"
    /\ viewType # calc.viewType
    /\ calc' = [calc EXCEPT !.stage = "fetching", !.viewType = viewType,
                            !.data = <<>>]
    /\ UNCHANGED <<dbVars, now, signup, psess, rsess>>

\* ------------------------------------------------------------------------
\* Specifications
\* ------------------------------------------------------------------------
Riders == {p.user_id : p \in {q \in profiles : q.role = "rider"}}
Partners == {p.user_id : p \in {q \in profiles : q.role = "partner"}}

\* the accounts of the application runs: u1 and u2 signed up as riders, u3 as
\* a partner, each with the code generate_pairing_code gave it
InitProfiles ==
    { [user_id |-> "u1", role |-> "rider", paired_rider_id |-> NULL, created_at |-> 0,
       pairing_code |-> CodeFromMd5(<<"a","3","f","0","9","c","7","e">>)],
      [user_id |-> "u2", role |-> "rider", paired_rider_id |-> NULL, created_at |-> 0,
       pairing_code |-> CodeFromMd5(<<"0","0","b","2","d","4","1","f">>)],
      [user_id |-> "u3", role |-> "partner", paired_rider_id |-> NULL, created_at |-> 0,
       pairing_code |-> CodeFromMd5(<<"9","e","8","d","7","c","6","b">>)] }

InitSignupDone ==
    [u \in Users |->
       LET p == CHOOSE q \in InitProfiles : q.user_id = u
       IN [pc |-> "done", role |-> p.role, code |-> p.pairing_code,
           via |-> IF p.role = "rider" THEN "handle_new_user" ELSE "set_pairing_code"]]

\* the application, on the database the signups left
Init ==
    /\ profiles = InitProfiles
    /\ settings = {}
    /\ attendance = {}
    /\ requests = {}
    /\ now = 0
    /\ signup = InitSignupDone
    /\ psess = [s \in PartnerSessions |-> PartnerInitial]
    /\ rsess = [s \in RiderSessions |-> RiderInitial]
    /\ calc = NoCalc

PartnerNext(s) ==
    \/ PartnerMount(s)
    \/ FetchDashboardData(s)
    \/ \E typed \in TypedCodes : PairWithRider(s, typed)
    \/ PairSelect(s)
    \/ PairUpdate(s)
    \/ PairFetch(s)
    \/ MarkAttendance(s)
    \/ MarkSettings(s)
    \/ MarkUpsert(s)
    \/ MarkRequests(s)
    \/ MarkFetch(s)

RiderNext(s) ==
    \/ \E typed \in TypedCosts : SavePetrolCost(s, typed)
    \/ SaveSelect(s)
    \/ SaveWrite(s)

\* one partner dashboard, the rider, requests and the clock
Next ==
    \/ PartnerNext("p1")
    \/ \E s \in RiderSessions : RiderNext(s)
    \/ \E u \in Riders : \E p \in Partners :
         \E status \in {"pending"} : InsertRequest(u, u, p, status)
    \/ \E d \in Days : AdvanceClock(d)

Spec == Init /\ [][Next]_vars

\* the partner's account open in two tabs at once, within one day
NextTabs ==
    \/ \E s \in PartnerSessions : PartnerNext(s)
    \/ \E s \in RiderSessions : RiderNext(s)

SpecTabs == Init /\ [][NextTabs]_vars

\* the rider page with its request button, one partner dashboard, and request
\* rows written and set aside through the table's API, within one day
NextRequests ==
    \/ PartnerMount("p1")
    \/ FetchDashboardData("p1")
    \/ PairWithRider("p1", <<"a","3","f","0","9","c">>)
    \/ PairSelect("p1")
    \/ PairUpdate("p1")
    \/ PairFetch("p1")
    \/ MarkAttendance("p1")
    \/ MarkSettings("p1")
    \/ MarkUpsert("p1")
    \/ MarkRequests("p1")
    \/ MarkFetch("p1")
    \/ SavePetrolCost("r1", <<"1","2","0">>)
    \/ SaveSelect("r1")
    \/ SaveWrite("r1")
    \/ RiderFetchDashboardData("r1")
    \/ SendRequestCall("r1")
    \/ SendRequest("r1")
    \/ \E u \in Riders : \E p \in Partners : InsertRequest(u, u, p, "pending")
    \/ \E u \in Users : \E r \in requests : IgnoreRequest(u, r)

SpecRequests == Init /\ [][NextRequests]_vars

\* the settings card and the settings table, with one partner dashboard
\* copying the cost into attendance rows
NextSettings ==
    \/ \E typed \in SettingsTypedCosts : SavePetrolCost("r1", typed)
    \/ SaveSelect("r1")
    \/ SaveWrite("r1")
    \/ \E u \in Users : \E cost \in ApiCosts : ManageSettings(u, u, cost)
    \/ PartnerMount("p1")
    \/ FetchDashboardData("p1")
    \/ PairWithRider("p1", <<"a","3","f","0","9","c">>)
    \/ PairSelect("p1")
    \/ PairUpdate("p1")
    \/ PairFetch("p1")
    \/ MarkAttendance("p1")
    \/ MarkSettings("p1")
    \/ MarkUpsert("p1")
    \/ MarkRequests("p1")
    \/ MarkFetch("p1")

SpecSettings == Init /\ [][NextSettings]_vars

\* every signed-in user sends writes for rows of the four tables, their own
\* and other users', next to one partner dashboard and the settings card
NextOwnership ==
    \/ \E u \in Users : UpdateProfile(u, "u3", "u2")
    \/ \E u \in Users : ManageSettings(u, "u1", 0)
    \/ \E u \in Users : InsertAttendance(u, "u3", "u2", 0)
    \/ \E u \in Users : \E a \in attendance : UpdateAttendance(u, a, 700)
    \/ \E u \in Users : InsertRequest(u, "u1", "u3", "pending")
    \/ PartnerMount("p1")
    \/ FetchDashboardData("p1")
    \/ PairWithRider("p1", <<"a","3","f","0","9","c">>)
    \/ PairSelect("p1")
    \/ PairUpdate("p1")
    \/ PairFetch("p1")
    \/ MarkAttendance("p1")
    \/ MarkSettings("p1")
    \/ MarkUpsert("p1")
    \/ MarkRequests("p1")
    \/ MarkFetch("p1")
    \/ SavePetrolCost("r1", <<"1","2","0">>)
    \/ SaveSelect("r1")
    \/ SaveWrite("r1")

SpecOwnership == Init /\ [][NextOwnership]_vars

\* the rider's reset button next to the settings card, one partner dashboard
\* and the clock
NextReset ==
    \/ ResetMonthlyData("r1")
    \/ \E h \in {0, 23} : \E tz \in TimeZones : ResetDelete("r1", h, tz)
    \/ ResetFetch("r1")
    \/ SavePetrolCost("r1", <<"1","2","0">>)
    \/ SaveSelect("r1")
    \/ SaveWrite("r1")
    \/ PartnerMount("p1")
    \/ FetchDashboardData("p1")
    \/ PairWithRider("p1", <<"a","3","f","0","9","c">>)
    \/ PairSelect("p1")
    \/ PairUpdate("p1")
    \/ PairFetch("p1")
    \/ MarkAttendance("p1")
    \/ MarkSettings("p1")
    \/ MarkUpsert("p1")
    \/ MarkRequests("p1")
    \/ MarkFetch("p1")
    \/ \E d \in Days : AdvanceClock(d)

SpecReset == Init /\ [][NextReset]_vars

\* one evaluation of the dashboard statistics: any of the rows, at any of
\* the instants, in any of the time zones
InitStats ==
    /\ profiles = InitProfiles
    /\ settings = {}
    /\ attendance = {}
    /\ requests = {}
    /\ now = 0
    /\ signup = InitSignupDone
    /\ psess = [s \in PartnerSessions |-> PartnerInitial]
    /\ rsess = [s \in RiderSessions |-> RiderInitial]
    /\ \E records \in SUBSET StatsRecords : \E t \in StatsInstants :
         \E tz \in TimeZones :
           calc = [op |-> "stats", stage |-> "fetched", records |-> records,
                   t |-> t, tz |-> tz, stats |-> StatsInitial, avg |-> NoAvg]

NextStats == FetchStats \/ RenderAvgPerDay

SpecStats == InitStats /\ [][NextStats]_vars

\* the analytics chart of rider u1 over any of the rows
InitAnalytics ==
    /\ profiles = InitProfiles
    /\ settings = {}
    /\ attendance = {}
    /\ requests = {}
    /\ now = 0
    /\ signup = InitSignupDone
    /\ psess = [s \in PartnerSessions |-> PartnerInitial]
    /\ rsess = [s \in RiderSessions |-> RiderInitial]
    /\ \E t \in AnalyticsInstants : \E tz \in TimeZones :
         \E att \in SUBSET AnalyticsAttendance(IsoDate(t)) :
           \E req \in SUBSET AnalyticsRequests(IsoDate(t)) :
             calc = [op |-> "analytics", stage |-> "fetching", viewType |-> "month",
                     t |-> t, tz |-> tz, attendance |-> att, requests |-> req,
                     data |-> <<>>]

NextAnalytics ==
    \/ LoadAnalytics
    \/ \E viewType \in AnalyticsViews : SetViewType(viewType)

SpecAnalytics == InitAnalytics /\ [][NextAnalytics]_vars

\* the signups alone, on an empty database
InitAccounts ==
    /\ profiles = {}
    /\ settings = {}
    /\ attendance = {}
    /\ requests = {}
    /\ now = 0
    /\ signup = [u \in Users |-> NoSignup]
    /\ psess = [s \in PartnerSessions |-> PartnerInitial]
    /\ rsess = [s \in RiderSessions |-> RiderInitial]
    /\ calc = NoCalc

NextAccounts ==
    \/ \E u \in Users : \E meta \in MetaRoles : SignupStart(u, meta)
    \/ \E u \in Users : \E m \in Md5Outputs : GeneratePairingCode(u, m)
    \/ \E u \in Users : InsertProfile(u)

SpecAccounts == InitAccounts /\ [][NextAccounts]_vars

\* one partner dashboard with its realtime subscription, the rider's
\* settings card and the rider's request rows, within one day
NextRefetch ==
    \/ RefetchStart("p1")
    \/ RefetchRead("p1")
    \/ RefetchSetStats("p1")
    \/ FetchDashboardData("p1")
    \/ PairWithRider("p1", <<"a","3","f","0","9","c">>)
    \/ PairSelect("p1")
    \/ PairUpdate("p1")
    \/ PairFetch("p1")
    \/ MarkAttendance("p1")
    \/ MarkSettings("p1")
    \/ MarkUpsert("p1")
    \/ MarkRequests("p1")
    \/ MarkFetch("p1")
    \/ SavePetrolCost("r1", <<"1","2","0">>)
    \/ SaveSelect("r1")
    \/ SaveWrite("r1")
    \/ InsertRequest("u1", "u1", "u3", "pending")

SpecRefetch == Init /\ [][NextRefetch]_vars

\* the rider's account open in two tabs, each with its settings card
RiderTabs == {"r1", "r2"}

\* what is typed into the card of each tab
TabCosts(s) ==
    IF s = "r1" THEN { <<"1","2","0">>, <<"1","0","0","0","0">> }
    ELSE { <<"5","0",".","5">>, <<"0">> }

InitRiderTabs ==
    /\ profiles = InitProfiles
    /\ settings = {}
    /\ attendance = {}
    /\ requests = {}
    /\ now = 0
    /\ signup = InitSignupDone
    /\ psess = [s \in PartnerSessions |-> PartnerInitial]
    /\ rsess = [s \in RiderTabs |-> RiderInitial]
    /\ calc = NoCalc

NextRiderTabs ==
    \/ \E s \in RiderTabs : \E typed \in TabCosts(s) : SavePetrolCost(s, typed)
    \/ \E s \in RiderTabs : SaveSelect(s)
    \/ \E s \in RiderTabs : SaveWrite(s)

SpecRiderTabs == InitRiderTabs /\ [][NextRiderTabs]_vars

PartnerDashboardShownToAll(s) == \E p \in profiles : p.user_id = SessionUser(s)

\* AppLayout: once the profile of the signed-in user is loaded, the partner
\* dashboard is what a role other than 'rider' gets
PartnerDashboardShown(s) ==
    \E p \in profiles : p.user_id = SessionUser(s) /\ p.role # "rider"

\* the signups of the three accounts, in any role, and the pairing card of
\* the dashboard of u3
NextPairing ==
    \/ \E u \in Users : \E meta \in MetaRoles : SignupStart(u, meta)
    \/ \E u \in Users : \E m \in Md5Outputs : GeneratePairingCode(u, m)
    \/ \E u \in Users : InsertProfile(u)
    \/ PartnerDashboardShown("p1") /\ PartnerMount("p1")
    \/ PartnerDashboardShown("p1") /\ FetchDashboardData("p1")
    \/ PartnerDashboardShown("p1")
         /\ \E typed \in TypedCodes : PairWithRider("p1", typed)
    \/ PairSelect("p1")
    \/ PairUpdate("p1")
    \/ PairFetch("p1")

SpecPairing == InitAccounts /\ [][NextPairing]_vars

\* the values of md5 drawn where the codes are scarce: two codes for three
\* accounts
GenerateDraws ==
    { <<"a","3","f","0","9","c","7","e">>,
      <<"0","0","b","2","d","4","1","f">>,
      <<"a","3","f","0","9","c","1","1">> }

\* every code generate_pairing_code can draw is stored
CodesExhausted == \A m \in GenerateDraws : CodeExists(CodeFromMd5(m))

NextGenerate ==
    \/ \E u \in Users : \E meta \in MetaRoles : SignupStart(u, meta)
    \/ \E u \in Users : \E m \in GenerateDraws : GeneratePairingCode(u, m)
    \/ \E u \in Users : InsertProfile(u)

\* random() is fair: a value that would end the loop is not passed over for
\* ever; the INSERT that called the function goes on once it has returned
SpecGenerate ==
    /\ InitAccounts
    /\ [][NextGenerate]_vars
    /\ \A u \in Users : \A m \in GenerateDraws :
          WF_vars(GeneratePairingCode(u, m))
    /\ \A u \in Users : WF_vars(InsertProfile(u))

\* ------------------------------------------------------------------------
\* Properties
\* ------------------------------------------------------------------------
AlnumUpper == UpperSet \cup DigitChars

\* C1: every non-null profiles.pairing_code is 6 characters of A-Z and 0-9,
\* and no two profiles hold the same code, whatever the interleaving of the
\* account creations.
C1_CodesWellFormedAndUnique ==
    /\ \A p \in profiles :
         p.pairing_code # NullText =>
           /\ Len(p.pairing_code) = 6
           /\ \A i \in 1..6 : p.pairing_code[i] \in AlnumUpper
    /\ \A p, q \in profiles :
         (p.pairing_code # NullText /\ p.user_id # q.user_id)
           => p.pairing_code # q.pairing_code

\* two accounts hold codes and a third signup, having drawn the code of one of
\* them while it was still free, was turned away at the insert
C1_Witness ==
    /\ Cardinality({p \in profiles : p.pairing_code # NullText}) = 2
    /\ \E u \in Users : /\ signup[u].pc = "failed"
                        /\ \E p \in profiles : p.pairing_code = signup[u].code

\* the signups can leave exactly the accounts the application runs start from
AccountsOfInitReached == profiles = InitProfiles

IsRiderWithCode(p, code) ==
    p.role = "rider" /\ p.pairing_code # NullText /\ p.pairing_code = code

PairUpdateEffect(s) ==
    LET uid == SessionUser(s)
        P == ProfileOf(uid)
    IN (psess[s].pc = "pair_update" /\ psess'[s].pc = "pair_fetch") =>
         /\ profiles' = (profiles \ {P})
              \cup {[P EXCEPT !.paired_rider_id = psess[s].riderProfile]}
         /\ UNCHANGED <<settings, attendance, requests>>

PairCompletion(s) ==
    (psess[s].pc = "pair_fetch" /\ psess'[s].pc = "idle") =>
      /\ ProfileOf(SessionUser(s)).paired_rider_id = psess[s].riderProfile
      /\ psess'[s].toast = "Successfully Paired!"
      /\ UNCHANGED dbVars

\* C2 as the claim states it: a well-formed code that is the pairing_code of
\* an existing rider-role profile R always ends with the partner's
\* paired_rider_id = R.user_id, nothing else changed.
C2_AnyExistingRider ==
    [][\A s \in PartnerSessions :
         /\ \A R \in profiles :
              (/\ psess[s].pc = "pair_select"
               /\ psess'[s] # psess[s]
               /\ IsRiderWithCode(R, psess[s].cleanCode))
              => /\ psess'[s].pc = "pair_update"
                 /\ psess'[s].riderProfile = R.user_id
         /\ PairUpdateEffect(s)
         /\ PairCompletion(s)]_vars

\* C2, amended: the same for a rider-role profile R created within the last
\* 30 days at the time of the lookup: the lookup finds R, the update sets the
\* partner's paired_rider_id to R.user_id and changes no other row of any
\* table, and the pointer still names R when the handler completes.
C2_PairSetsPointer ==
    [][\A s \in PartnerSessions :
         /\ \A R \in profiles :
              (/\ psess[s].pc = "pair_select"
               /\ psess'[s] # psess[s]
               /\ IsRiderWithCode(R, psess[s].cleanCode)
               /\ R.created_at > now - 30)
              => /\ psess'[s].pc = "pair_update"
                 /\ psess'[s].riderProfile = R.user_id
         /\ PairUpdateEffect(s)
         /\ PairCompletion(s)]_vars

\* a pairing has completed on a database whose other tables all hold rows
C2_Witness ==
    /\ \E s \in PartnerSessions :
         /\ psess[s].pc = "idle"
         /\ psess[s].toast = "Successfully Paired!"
         /\ ProfileOf(SessionUser(s)).paired_rider_id = "u2"
    /\ settings # {}
    /\ attendance # {}
    /\ requests # {}

C3_SixAlnum(code) ==
    /\ Len(code) = 6
    /\ \A i \in 1..Len(code) :
         \/ code[i] \in AlnumUpper
         \/ \E k \in 1..26 : LowerLetters[k] = code[i]

\* C3: when the code in the field is not exactly 6 alphanumeric characters,
\* pairWithRider goes to no lookup (the handler is over at once) and no table
\* changes.
C3_MalformedCodeNoLookup ==
    [][\A s \in PartnerSessions : \A typed \in TypedCodes :
         (PairWithRider(s, typed) /\ ~C3_SixAlnum(OnChangePairingCode(typed)))
           => /\ psess'[s].pc = "idle"
              /\ psess'[s].cleanCode = psess[s].cleanCode
              /\ UNCHANGED dbVars]_vars

\* a malformed code has been turned away
C3_Witness ==
    \E s \in PartnerSessions :
        psess[s].pc = "idle" /\ psess[s].toast = "Invalid Pairing Code"

\* C4: a well-formed code that is the pairing_code of no rider-role profile
\* ends the handler with the "Invalid Code" notice and changes no table.
C4_UnmatchedCodeNoMutation ==
    [][\A s \in PartnerSessions :
         (/\ psess[s].pc = "pair_select"
          /\ psess'[s] # psess[s]
          /\ ~\E R \in profiles : IsRiderWithCode(R, psess[s].cleanCode))
         => /\ psess'[s].pc = "idle"
            /\ psess'[s].toast = "Invalid Code"
            /\ UNCHANGED dbVars]_vars

\* the code of a partner-role profile (the partner's own) was refused while
\* the partner was already paired, and the pairing stands
C4_Witness ==
    \E s \in PartnerSessions :
        /\ psess[s].pc = "idle"
        /\ psess[s].toast = "Invalid Code"
        /\ psess[s].cleanCode = ProfileOf(SessionUser(s)).pairing_code
        /\ ProfileOf(SessionUser(s)).paired_rider_id = "u1"

\* C5: whenever a pairWithRider call has done its update, the partner's
\* paired_rider_id is the rider whose code was entered in that call, also
\* when the partner was paired with another rider before.
C5_PairingOverwrites ==
    \A s \in PartnerSessions :
        psess[s].pc = "pair_fetch" =>
          /\ ProfileOf(SessionUser(s)).paired_rider_id = psess[s].riderProfile
          /\ IsRiderWithCode(ProfileOf(psess[s].riderProfile), psess[s].cleanCode)

\* the partner, who marked attendance for u1 while paired with u1, has just
\* been re-paired with u2
C5_Witness ==
    \E s \in PartnerSessions :
        /\ psess[s].pc = "pair_fetch"
        /\ psess[s].riderProfile = "u2"
        /\ ProfileOf(SessionUser(s)).paired_rider_id = "u2"
        /\ \E a \in attendance :
             a.partner_id = SessionUser(s) /\ a.rider_id = "u1"

AttendanceFor(rows, partner, rider, date) ==
    {a \in rows : a.partner_id = partner /\ a.rider_id = rider /\ a.date = date}

\* C6 as the claim states it: every markAttendance that reaches its write
\* leaves exactly one row for (partner, rider, date), and that row's amount is
\* the cost this call read, also when a row for the day was there already.
C6_RemarkOverwrites ==
    [][\A s \in PartnerSessions :
         (psess[s].pc = "mark_upsert" /\ psess'[s].pc # "mark_upsert") =>
           LET rows == AttendanceFor(attendance', SessionUser(s),
                                     psess[s].riderInfo, psess[s].today)
           IN /\ Cardinality(rows) = 1
              /\ \A a \in rows : a.amount = psess[s].amount]_vars

\* C7: when there is no settings row for the paired rider, markAttendance
\* ends with the no-settings notice and writes nothing: no table changes.
C7_NoSettingsNoWrite ==
    [][\A s \in PartnerSessions :
         (/\ psess[s].pc = "mark_settings"
          /\ psess'[s] # psess[s]
          /\ ~\E st \in settings : st.rider_id = psess[s].riderInfo)
         => /\ psess'[s].pc = "idle"
            /\ psess'[s].toast = "Rider hasn't set daily petrol cost yet."
            /\ UNCHANGED dbVars]_vars

\* markAttendance was refused for a paired rider without settings while a
\* request of that rider was pending, and the request is pending still
C7_Witness ==
    \E s \in PartnerSessions :
        /\ psess[s].pc = "idle"
        /\ psess[s].toast = "Rider hasn't set daily petrol cost yet."
        /\ psess[s].riderInfo # NULL
        /\ ~\E st \in settings : st.rider_id = psess[s].riderInfo
        /\ attendance = {}
        /\ \E r \in requests : /\ r.rider_id = psess[s].riderInfo
                               /\ r.partner_id = SessionUser(s)
                               /\ r.status = "pending"

\* C8: with the rider's cost saved as c and the partner paired with the rider,
\* markAttendance reads c, its write succeeds, and from the write on the row
\* (partner, rider, today) exists with amount = c and status 'present'.
C8_MarkWritesCost ==
    /\ [](\A s \in PartnerSessions :
            psess[s].pc \in {"mark_requests", "mark_fetch"} =>
              \E a \in attendance :
                  /\ a.partner_id = SessionUser(s)
                  /\ a.rider_id = psess[s].riderInfo
                  /\ a.date = psess[s].today
                  /\ a.amount = psess[s].amount
                  /\ a.status = "present")
    /\ [][\A s \in PartnerSessions :
            /\ (psess[s].pc = "mark_settings" /\ psess'[s].pc = "mark_upsert") =>
                 /\ ProfileOf(SessionUser(s)).paired_rider_id = psess[s].riderInfo
                 /\ \E st \in settings :
                        /\ st.rider_id = psess[s].riderInfo
                        /\ st.daily_petrol_cost = psess'[s].amount
            /\ (psess[s].pc = "mark_upsert" /\ psess'[s] # psess[s]) =>
                 psess'[s].pc = "mark_requests"]_vars

\* the rider saved 120.00, the partner paired and marked: the row is there
C8_Witness ==
    \E s \in PartnerSessions :
        /\ psess[s].pc = "idle"
        /\ psess[s].toast = "Attendance marked!"
        /\ [rider_id |-> "u1", daily_petrol_cost |-> 12000] \in settings
        /\ \E a \in attendance :
               /\ a.partner_id = SessionUser(s)
               /\ a.rider_id = "u1"
               /\ a.date = now
               /\ a.amount = 12000
               /\ a.status = "present"

\* C9: the requests update of a markAttendance whose attendance write
\* succeeded leaves no row with partner_id = P and date = today pending: each
\* row that was pending is the same row with status 'completed'.  The rest of
\* the handler leaves the requests alone and a completed row stays completed,
\* so the rows are completed still when the handler is over.
C9_PendingBecomeCompleted ==
    [][/\ \A s \in PartnerSessions :
            /\ (psess[s].pc = "mark_requests" /\ psess'[s].pc = "mark_fetch") =>
                 /\ \A r \in requests' :
                      (r.partner_id = SessionUser(s) /\ r.date = psess[s].today)
                        => r.status # "pending"
                 /\ \A r \in requests :
                      (/\ r.partner_id = SessionUser(s)
                       /\ r.date = psess[s].today
                       /\ r.status = "pending")
                        => [r EXCEPT !.status = "completed"] \in requests'
            /\ (psess[s].pc = "mark_fetch" /\ psess'[s].pc = "idle") =>
                 /\ psess'[s].toast = "Attendance marked!"
                 /\ requests' = requests
       /\ \A r \in requests : r.status = "completed" => r \in requests']_vars

\* a request for today was pending and the marking completed it
C9_Witness ==
    \E s \in PartnerSessions :
        /\ psess[s].pc = "idle"
        /\ psess[s].toast = "Attendance marked!"
        /\ \E r \in requests : /\ r.partner_id = SessionUser(s)
                               /\ r.status = "completed"
                               /\ \E a \in attendance :
                                      /\ a.partner_id = r.partner_id
                                      /\ a.rider_id = r.rider_id
                                      /\ a.date = r.date

\* C10 as the claim states it: of two markAttendance submissions in flight
\* together for the same (partner, rider, date), the one that writes second
\* leaves exactly one row for the key, carrying the amount it submitted, and
\* the partner's total moves from the first amount to the second.
C10_LastWriteWins ==
    [][\A s, t \in PartnerSessions :
         (/\ s # t
          /\ SessionUser(s) = SessionUser(t)
          /\ psess[t].pc \in {"mark_requests", "mark_fetch"}
          /\ psess[s].riderInfo = psess[t].riderInfo
          /\ psess[s].today = psess[t].today
          /\ psess[s].pc = "mark_upsert"
          /\ psess'[s].pc # "mark_upsert")
         => LET rows == AttendanceFor(attendance', SessionUser(s),
                                      psess[s].riderInfo, psess[s].today)
            IN /\ Cardinality(rows) = 1
               /\ \A a \in rows : a.amount = psess[s].amount
               /\ TotalSpent(SessionUser(s), psess[s].riderInfo)'
                    = TotalSpent(SessionUser(s), psess[s].riderInfo)
                        - psess[t].amount + psess[s].amount]_vars
\* C11 as the claim states it: every sendRequest call of rider R ends with
\* exactly one request row (R, P, today) of status 'pending' for a partner P.
C11_SendLeavesOnePending ==
    [][\A s \in RiderSessions :
         (rsess[s].pc = "send_request" /\ rsess'[s].pc = "idle") =>
           \E P \in Partners :
               Cardinality({r \in requests' : /\ r.rider_id = SessionUser(s)
                                              /\ r.partner_id = P
                                              /\ r.date = now
                                              /\ r.status = "pending"}) = 1]_vars

\* C12 as the claim states it: the status of a request row changes only from
\* 'pending' to 'completed' or from 'pending' to 'ignored'.
C12_StatusTransitions ==
    [][\A r \in requests : \A r2 \in requests' :
         (r2.id = r.id /\ r2.status # r.status) =>
           /\ r.status = "pending"
           /\ r2.status \in {"completed", "ignored"}]_vars

\* C13 as the claim states it: every rider profile holds a pairing code and
\* every partner profile holds none.
C13_CodesForRidersOnly ==
    \A p \in profiles :
        /\ p.role = "rider" => p.pairing_code # NullText
        /\ p.role = "partner" => p.pairing_code = NullText

\* the aggregation as the claim words it, for a reference date D
StatsAt(records, D) ==
    LET inMonth == {r \in records : /\ Ymd(r.date).month = Ymd(D).month
                                    /\ Ymd(r.date).year = Ymd(D).year}
    IN [total |-> SumAmounts(records),
        monthly |-> SumAmounts(inMonth),
        daysThisMonth |-> Cardinality(inMonth),
        todayStatus |-> IF \E r \in records : r.date = D
                        THEN "completed" ELSE "pending"]

\* C14 as the claim states it: the statistics the page computes are total =
\* sum of all amounts, monthly = sum over the records of the reference month
\* and year, daysThisMonth = their number, todayStatus = 'completed' exactly
\* when a record carries the reference date -- the reference date being the
\* current day, of the browser's calendar or of UTC.
C14_AggregationByReferenceDate ==
    (calc.op = "stats" /\ calc.stage # "fetched") =>
      \E D \in {LocalDay(calc.t, calc.tz), IsoDate(calc.t)} :
          calc.stats = StatsAt(calc.records, D)

\* C15: the average shown is monthly / daysThisMonth to the nearest hundredth
\* when daysThisMonth > 0 (83.33 for a month of 100, 100 and 50), and is 0,
\* the division not run, when daysThisMonth = 0.
C15_AvgPerDay ==
    (calc.op = "stats" /\ calc.stage = "shown") =>
      LET m == calc.stats.monthly
          d == calc.stats.daysThisMonth
          v == calc.avg.value
      IN /\ d > 0 => /\ calc.avg.divided
                     /\ 2 * (v * d - m) <= d
                     /\ 2 * (m - v * d) <= d
         /\ d = 0 => /\ ~calc.avg.divided
                     /\ v = 0
         /\ (m = 25000 /\ d = 3) => v = 8333

\* the month of 100, 100 and 50 has been shown: total 250, monthly 250, three
\* days, average 83.33
C15_Witness ==
    /\ calc.op = "stats" /\ calc.stage = "shown"
    /\ {r.amount : r \in calc.records} = {10000, 5000}
    /\ calc.stats.total = 25000
    /\ calc.stats.monthly = 25000
    /\ calc.stats.daysThisMonth = 3
    /\ calc.avg = [divided |-> TRUE, value |-> 8333]

\* C16 as the claim states it: the 7-day view holds exactly 7 entries, of
\* consecutive ascending days, the last one the reference date.
C16_SevenEntries ==
    (calc.op = "analytics" /\ calc.stage = "shown" /\ calc.viewType = "day") =>
      /\ Len(calc.data) = 7
      /\ \A i \in 1..(Len(calc.data) - 1) :
             calc.data[i + 1].date = calc.data[i].date + 1
      /\ calc.data[Len(calc.data)].date = IsoDate(calc.t)

\* C17: every entry of the window is 'completed' with the amount of the
\* rider's attendance row of that day if there is one (a pending request or
\* not), else 'requested' with amount 0 if the rider has a pending request
\* for that day, else 'none' with amount 0.
C17_EntryLabels ==
    (calc.op = "analytics" /\ calc.stage = "shown") =>
      /\ Len(calc.data) > 0
      /\ \A i \in 1..Len(calc.data) :
            LET e == calc.data[i]
                att == {a \in calc.attendance :
                           a.rider_id = "u1" /\ a.date = e.date}
                req == {r \in calc.requests :
                           /\ r.rider_id = "u1" /\ r.date = e.date
                           /\ r.status = "pending"}
            IN IF att # {}
               THEN e.status = "completed" /\ \A a \in att : e.amount = a.amount
               ELSE IF req # {}
               THEN e.status = "requested" /\ e.amount = 0
               ELSE e.status = "none" /\ e.amount = 0

\* a chart with all three labels, where a day with both an attendance row
\* and a pending request is 'completed' and the rows of another rider and a
\* completed request leave their days 'none'
C17_Witness ==
    /\ calc.op = "analytics" /\ calc.stage = "shown" /\ calc.viewType = "day"
    /\ calc.attendance = AnalyticsAttendance(IsoDate(calc.t))
    /\ calc.requests = AnalyticsRequests(IsoDate(calc.t))
    /\ \E i, j, k, l \in 1..Len(calc.data) :
         /\ calc.data[i] = [date |-> IsoDate(calc.t) - 3, amount |-> 5050,
                            status |-> "completed"]
         /\ calc.data[j] = [date |-> IsoDate(calc.t) - 2, amount |-> 0,
                            status |-> "requested"]
         /\ calc.data[k] = [date |-> IsoDate(calc.t) - 1, amount |-> 0,
                            status |-> "none"]
         /\ calc.data[l] = [date |-> IsoDate(calc.t) - 5, amount |-> 0,
                            status |-> "none"]

\* what savePetrolCost must turn away: an empty or non-numeric field, a
\* negative amount, an amount above 10000
C18_InvalidInput(typed) ==
    \/ typed = <<>>
    \/ Head(typed) = "-" /\ typed # <<"-","0">>
    \/ typed \in { <<"1","0","0","0","1">>, <<"1","0","0","0","0",".","0","1">> }

\* C18: every stored daily_petrol_cost lies in 0..10000 (in hundredths), and
\* a savePetrolCost on an invalid field returns at once: no backend call is
\* started and no table changes.
C18_CostInRange ==
    /\ [](\A st \in settings :
            st.daily_petrol_cost >= 0 /\ st.daily_petrol_cost <= 1000000)
    /\ [][\A s \in RiderSessions : \A typed \in SettingsTypedCosts :
            (SavePetrolCost(s, typed) /\ C18_InvalidInput(typed))
              => /\ rsess'[s].pc = "idle"
                 /\ UNCHANGED dbVars]_vars

\* the rider's row holds the largest cost there is, 10000.00, written over
\* an earlier one that the partner had copied into an attendance row
C18_Witness ==
    /\ [rider_id |-> "u1", daily_petrol_cost |-> 1000000] \in settings
    /\ rsess["r1"].pc = "idle"
    /\ \E a \in attendance : a.rider_id = "u1" /\ a.amount = 0

\* the rows a step changed all belong to user u: profiles of u, the settings
\* row of rider u, attendance rows with partner_id = u, new request rows with
\* rider_id = u
C19_OnlyRowsOf(u) ==
    /\ \A p \in (profiles \ profiles') \cup (profiles' \ profiles) : p.user_id = u
    /\ \A st \in (settings \ settings') \cup (settings' \ settings) : st.rider_id = u
    /\ \A a \in (attendance \ attendance') \cup (attendance' \ attendance) :
           a.partner_id = u
    /\ \A r \in requests' :
           (\A q \in requests : q.id # r.id) => r.rider_id = u

\* C19: whatever a user's step changes belongs to that user -- for the
\* handlers of the pages and for writes sent to the tables directly; a write
\* for another user's row changes nothing.
C19_OwnerOnly ==
    [][/\ \A s \in PartnerSessions :
            psess'[s] # psess[s] => C19_OnlyRowsOf(SessionUser(s))
       /\ \A s \in RiderSessions :
            rsess'[s] # rsess[s] => C19_OnlyRowsOf(SessionUser(s))
       /\ \A u \in Users :
            /\ UpdateProfile(u, "u3", "u2") => C19_OnlyRowsOf(u)
            /\ ManageSettings(u, "u1", 0) => C19_OnlyRowsOf(u)
            /\ InsertAttendance(u, "u3", "u2", 0) => C19_OnlyRowsOf(u)
            /\ (\E a \in attendance : UpdateAttendance(u, a, 700))
                 => C19_OnlyRowsOf(u)
            /\ InsertRequest(u, "u1", "u3", "pending") => C19_OnlyRowsOf(u)]_vars

\* each table holds a row its owner wrote: the partner's pointer, the
\* rider's settings, an attendance row of the partner that was updated, a
\* request of the rider
C19_Witness ==
    /\ ProfileOf("u3").paired_rider_id = "u2"
    /\ [rider_id |-> "u1", daily_petrol_cost |-> 0] \in settings
    /\ \E a \in attendance :
           a.partner_id = "u3" /\ a.rider_id = "u2" /\ a.amount = 700
    /\ \E r \in requests : r.rider_id = "u1" /\ r.partner_id = "u3"

\* C20: the lookup by pairing code hands pairWithRider only a rider-role
\* profile created within the last 30 days; when the code entered is that of
\* a rider created 30 days ago or earlier, the handler ends with the
\* "Invalid Code" notice and no table changes.
C20_LookupWindow ==
    [][\A s \in PartnerSessions :
         (psess[s].pc = "pair_select" /\ psess'[s] # psess[s]) =>
           /\ psess'[s].pc = "pair_update" =>
                /\ ProfileOf(psess'[s].riderProfile).role = "rider"
                /\ ProfileOf(psess'[s].riderProfile).pairing_code = psess[s].cleanCode
                /\ ProfileOf(psess'[s].riderProfile).created_at
                     > now - PairingWindowDays
           /\ (/\ \E R \in profiles : IsRiderWithCode(R, psess[s].cleanCode)
               /\ \A R \in profiles :
                    IsRiderWithCode(R, psess[s].cleanCode)
                    => R.created_at <= now - PairingWindowDays)
              => /\ psess'[s].pc = "idle"
                 /\ psess'[s].toast = "Invalid Code"
                 /\ UNCHANGED dbVars]_vars

\* the code of a rider whose profile is 30 days old was entered and refused,
\* and the partner is not paired with that rider
C20_Witness ==
    \E s \in PartnerSessions : \E R \in profiles :
        /\ psess[s].pc = "idle"
        /\ psess[s].toast = "Invalid Code"
        /\ IsRiderWithCode(R, psess[s].cleanCode)
        /\ R.created_at <= now - PairingWindowDays
        /\ ProfileOf(SessionUser(s)).paired_rider_id # R.user_id

\* C21: the code generate_pairing_code returns is stored in no profile when
\* it returns; while a code it can draw is unused, a call in progress
\* eventually returns; and with every code it can draw stored, a call in
\* progress stays in its loop.
C21_GenerateTerminates ==
    /\ [][\A u \in Users :
            /\ (signup[u].pc = "generate" /\ signup'[u].pc # "generate") =>
                 /\ signup'[u].pc = "insert"
                 /\ MatchesCodeFormat(signup'[u].code)
                 /\ \A p \in profiles : p.pairing_code # signup'[u].code
            /\ (signup[u].pc = "generate" /\ CodesExhausted) =>
                 (signup'[u].pc = "generate" /\ CodesExhausted')]_vars
    /\ \A u \in Users :
          (signup[u].pc = "generate")
             ~> (signup[u].pc = "insert" \/ CodesExhausted)

\* both codes are stored and the third account's call is in its loop
C21_Witness ==
    /\ CodesExhausted
    /\ Cardinality(profiles) = 2
    /\ \E u \in Users : signup[u].pc = "generate"

C23_AmountIsCopy ==
    [][(settings' # settings \/ \E s \in RiderSessions :
            /\ rsess[s].pc \in {"idle", "save_select", "save_write"}
            /\ rsess'[s] # rsess[s])
        => /\ attendance' = attendance
           /\ \A u \in Users :
                LET recs == {a \in attendance : a.rider_id = u}
                    recsAfter == {a \in attendance' : a.rider_id = u}
                IN /\ CalculateStats(recsAfter, now * 24, 0).total
                        = CalculateStats(recs, now * 24, 0).total
                   /\ CalculateStats(recsAfter, now * 24, 0).monthly
                        = CalculateStats(recs, now * 24, 0).monthly]_vars

\* the day was recorded at 120.00 and the rider has since saved 50.50
C23_Witness ==
    /\ rsess["r1"].pc = "idle"
    /\ [rider_id |-> "u1", daily_petrol_cost |-> 5050] \in settings
    /\ \E a \in attendance :
           a.rider_id = "u1" /\ a.date = now /\ a.amount = 12000

\* C24 as the claim states it: markAttendance goes on to its settings read
\* only for a partner whose profile is paired, and every attendance row its
\* write adds has partner_id = the caller and rider_id = the rider the
\* caller's profile names at the time of the write.
C24_MarkRequiresPairing ==
    [][\A s \in PartnerSessions :
         LET uid == SessionUser(s) IN
         /\ (psess[s].pc = "idle" /\ psess'[s].pc = "mark_settings") =>
              ProfileOf(uid).paired_rider_id # NULL
         /\ (psess[s].pc = "mark_upsert" /\ psess'[s].pc = "mark_requests") =>
              \A a \in attendance' \ attendance :
                  /\ a.partner_id = uid
                  /\ a.rider_id = ProfileOf(uid).paired_rider_id]_vars

\* the steps of markAttendance come in the order settings read, attendance
\* write, requests update, and the update is not reached past a failed write
C25_Order ==
    [][\A s \in PartnerSessions :
         /\ (psess'[s].pc = "mark_upsert" /\ psess[s].pc # "mark_upsert") =>
              psess[s].pc = "mark_settings"
         /\ (psess'[s].pc = "mark_requests" /\ psess[s].pc # "mark_requests") =>
              /\ psess[s].pc = "mark_upsert"
              /\ ~AttendanceUpsert(SessionUser(s),
                     MarkRow(SessionUser(s), psess[s].riderInfo,
                             psess[s].today, psess[s].amount)).error
         /\ (psess[s].pc = "mark_requests" /\ psess'[s].pc # "mark_requests") =>
              psess'[s].pc = "mark_fetch"]_vars

\* a completed request of (partner, day) comes with an attendance row of
\* that partner and day
C25_CompletedHasAttendance ==
    \A r \in requests :
        r.status = "completed" =>
          \E a \in attendance : a.partner_id = r.partner_id /\ a.date = r.date

\* C25 as the claim states it: the order of the steps, the attendance row
\* behind every completed request, and 'attendance recorded, request still
\* pending' only while a markAttendance of that partner stands between its
\* attendance write and its requests update.
C25_MarkSequence ==
    /\ C25_Order
    /\ []C25_CompletedHasAttendance
    /\ [](\A r \in requests : \A a \in attendance :
            (/\ r.status = "pending"
             /\ a.partner_id = r.partner_id
             /\ a.rider_id = r.rider_id
             /\ a.date = r.date)
            => \E s \in PartnerSessions :
                   /\ SessionUser(s) = r.partner_id
                   /\ psess[s].pc = "mark_requests"
                   /\ psess[s].today = r.date)

\* C26: a profile whose paired_rider_id is set is a partner's, and the value
\* is the user_id of another, existing profile of role rider.
C26_PointerPartnerToRider ==
    \A p \in profiles :
        p.paired_rider_id # NULL =>
          /\ p.role = "partner"
          /\ \E q \in profiles : /\ q.user_id = p.paired_rider_id
                                  /\ q.user_id # p.user_id
                                  /\ q.role = "rider"

\* the partner is paired with a rider and has since been refused the code
\* that another partner's profile holds
C26_Witness ==
    \E p, q \in profiles :
        /\ p.user_id = "u3" /\ p.paired_rider_id # NULL
        /\ q.role = "partner" /\ q.user_id # "u3"
        /\ psess["p1"].toast = "Invalid Code"
        /\ psess["p1"].cleanCode = q.pairing_code

\* C27: with savePetrolCost running in two tabs of one rider, in any
\* interleaving, the rider has at most one settings row in every state; the
\* cost stored is one of the values submitted; and when an invocation ends
\* the row is there, holding the value of this invocation or, where its
\* insert met the row the other invocation had written meanwhile, that
\* invocation's value.
C27_OneRowOneOfTheValues ==
    /\ [](\A u \in Users :
            Cardinality({st \in settings : st.rider_id = u}) <= 1)
    /\ [](\A st \in settings :
            \E s \in RiderTabs : \E typed \in TabCosts(s) :
                st.daily_petrol_cost = ParseFloat(typed).value)
    /\ [][\A s \in RiderTabs :
            (rsess[s].pc = "save_write" /\ rsess'[s].pc = "idle") =>
              \E st \in settings' :
                  /\ st.rider_id = SessionUser(s)
                  /\ \/ st.daily_petrol_cost = rsess[s].cost
                     \/ ~rsess[s].existing /\ st \in settings]_vars

\* the first tab's save has inserted 120.00 after the second tab had looked
\* for a row and found none: the second tab is about to insert 50.50
C27_Witness ==
    /\ rsess["r1"].pc = "idle"
    /\ rsess["r2"].pc = "save_write"
    /\ ~rsess["r2"].existing
    /\ rsess["r2"].cost = 5050
    /\ settings = {[rider_id |-> "u1", daily_petrol_cost |-> 12000]}

\* C28 as the claim states it: every request row a sendRequest call of rider
\* R adds names a partner whose profile is paired with R, and when such a
\* partner exists and R has no request to that partner for today yet, the
\* call adds the row.
C28_RequestToPairedPartner ==
    [][\A s \in RiderSessions :
         LET uid == SessionUser(s)
             added == {r \in requests' : \A q \in requests : q.id # r.id}
         IN (rsess[s].pc = "send_request" /\ rsess'[s].pc = "idle") =>
              /\ \A r \in added :
                     /\ r.rider_id = uid
                     /\ \E P \in profiles : /\ P.user_id = r.partner_id
                                             /\ P.role = "partner"
                                             /\ P.paired_rider_id = uid
              /\ \A P \in profiles :
                     (/\ P.role = "partner"
                      /\ P.paired_rider_id = uid
                      /\ ~\E q \in requests : /\ q.rider_id = uid
                                               /\ q.partner_id = P.user_id
                                               /\ q.date = now)
                     => \E r \in added : r.partner_id = P.user_id]_vars

\* C29 as the claim states it: when no handler and no fetchDashboardData of
\* the partner's dashboard is in flight, the todayMarked it shows is true
\* exactly when the attendance row (partner, paired rider, today) exists.
C29_DisplayMatchesTable ==
    (psess["p1"].pc = "idle" /\ calc = NoCalc) =>
      (psess["p1"].todayMarked
         <=> \E a \in attendance :
                 /\ a.partner_id = SessionUser("p1")
                 /\ a.rider_id = ProfileOf(SessionUser("p1")).paired_rider_id
                 /\ a.date = now)

\* C30 as the claim states it: the requests update of a markAttendance by
\* partner P for rider R leaves every request row as it was, except rows
\* that were pending for (R, P, today).
C30_OnlyPairedPendingChange ==
    [][\A s \in PartnerSessions :
         (psess[s].pc = "mark_requests" /\ psess'[s].pc = "mark_fetch") =>
           \A r \in requests :
               \/ r \in requests'
               \/ /\ r.status = "pending"
                  /\ r.rider_id = psess[s].riderInfo
                  /\ r.rider_id = ProfileOf(SessionUser(s)).paired_rider_id
                  /\ r.partner_id = SessionUser(s)
                  /\ r.date = psess[s].today]_vars

====
